---- MODULE Spec2Model ----
(***************************************************************************)
(* Model of the WebSocket transport of the Luno MCP server                 *)
(* (src/src/luno_mcp_server/transport.py): the connection registry, the    *)
(* per-client rate limiter and the per-connection receive loop, as run by  *)
(* a cooperative (asyncio) event loop.  One action is one run of a task    *)
(* from one suspension point (await) to the next.                          *)
(***************************************************************************)
EXTENDS Integers, Sequences, FiniteSets, TLC

(* ------------------------------ bounds -------------------------------- *)
\* websocket objects the server ever sees
NumConns == 2
\* frames all clients together ever send
MaxSends == 2
\* frames the client of the timed specification ever sends
MaxTimedSends == 4
\* frames all clients together send in the specification with fairness
MaxFairSends == 1
\* clock readings that differ from the one before
MaxTicks == 2
\* _request calls the tools make of the Luno client
NumCalls == 3
\* stand-in for LunoMCPConfig.max_requests_per_minute (config.py 73)
max_requests_per_minute == 2
\* lines standard input holds
MaxLines == 3
\* send_request calls the two tasks of the WebSocket client make in all
MaxRequests == 3
\* small stand-ins for the constructor's arguments (transport.py 75-77)
MaxCapacity == 2
\* loop bodies the connection monitor runs
MaxMonitorTicks == 2
max_message_size == 2
rate_limit == 2

(* ----------------------- program constants ---------------------------- *)
\* length of a rate-limit window in seconds (transport.py 114, 121)
Window == 60
\* close code of a rejected connection (transport.py 146)
PolicyViolation == 1008
\* JSON-RPC error codes (transport.py 167, 183)
CodeTooLarge == -32600
CodeRateLimited == -32000
\* seconds the connection monitor sleeps between two reports (transport.py 240)
MonitorInterval == 60

Conns == 1..NumConns
Calls == 1..NumCalls
\* the tasks main() creates (enhanced_websocket_client.py 329-335)
Tasks == {"monitor_prices", "keep_alive"}
\* remote addresses "ip:port"
Idents == 1..NumConns
\* the clock advances by one second, to the end of a window or past it
ClockSteps == {1, Window}

VARIABLES
    max_connections,     \* self.max_connections
    active_connections,  \* self.active_connections: list of websockets
    client_rate_limits,  \* self.client_rate_limits: dict identity -> window
    now,                 \* asyncio.get_event_loop().time()
    ticks,               \* clock steps taken
    pc,                  \* where each connection's _handle_client task is
    remote_address,      \* websocket.remote_address of each connection
    wsState,             \* the library's state of each connection
    inbox,               \* frames received by the library, not yet iterated
    out,                 \* the frame the task is about to send
    sent,                \* frames sent to each client, in order
    dispatched,          \* messages passed to request_handler, per connection
    requests,            \* per identity: its rate-checked requests (time, verdict, window)
    oversized,           \* per connection: frames of the client above the size limit
    exit,                \* how each task ended
    raised,              \* exception that escaped _handle_client
    sends,               \* frames sent by all clients
    received,            \* per connection: frames the library took from the client
    bcast,               \* where the _broadcast_message task is
    targets,             \* its copy of the registry, not yet sent to
    notified,            \* notifications sent to each client, in order
    bcast_raised,        \* exception that escaped _broadcast_message
    files,               \* the certificate and key files run() finds
    runpc,               \* where run() is
    run_exit,            \* how run() ended
    ssl_context,         \* the ssl argument of websockets.serve
    listening,           \* the listening socket: none, ws or wss
    monitor,             \* state of the _connection_monitor task
    monitor_started,     \* monitor tasks created
    monitor_ticks,       \* loop bodies the monitor has run
    monitor_report,      \* the numbers the monitor logged at its last tick
    rate_limiter,        \* LunoClient._rate_limiter: the semaphore's value
    call,                \* where each _request call of the Luno client is
    api_started,         \* clock readings at which requests to the exchange started
    stdin,               \* lines of standard input not yet read
    stdio_pc,            \* where STDIOTransport.run is
    line,                \* the stripped line the handler is working on
    handled,             \* lines the STDIO handler was called with, in order
    stdout,              \* responses printed, in order
    stdio_log,           \* reads, handler calls and prints, in order
    id_counter,          \* EnhancedWebSocketClient.id_counter
    client_task,         \* where each task's send_request call is
    request_id,          \* the id of each task's request
    to_server,           \* requests on their way to and at the server
    to_client,           \* responses received by the library, not yet taken by recv
    recv_waiter,         \* the task suspended in websocket.recv()
    returned,            \* what the send_request calls returned
    websocket,           \* the state of the client's connection
    disconnected         \* the client's own flag

connVars == <<max_connections, active_connections, client_rate_limits, now, ticks, pc,
              remote_address, wsState, inbox, out, sent, dispatched,
              requests, oversized, exit, raised, sends, received>>
bcastVars == <<bcast, targets, notified, bcast_raised>>
runVars == <<files, runpc, run_exit, ssl_context, listening, monitor,
             monitor_started, monitor_ticks, monitor_report>>

lunoVars == <<rate_limiter, call, api_started>>
stdioVars == <<stdin, stdio_pc, line, handled, stdout, stdio_log>>
clientVars == <<id_counter, client_task, request_id, to_server, to_client,
                recv_waiter, returned, websocket, disconnected>>
appVars == <<lunoVars, stdioVars, clientVars>>
\* the transport's connection state but for the clock reading
connStill == <<max_connections, active_connections, client_rate_limits, ticks,
               pc, remote_address, wsState, inbox, out, sent, dispatched,
               requests, oversized, exit, raised, sends, received>>

\* the transport's connection state but for the clock
connRest == <<max_connections, active_connections, client_rate_limits, pc,
              remote_address, wsState, inbox, out, sent, dispatched,
              requests, oversized, exit, raised, sends, received>>

vars == <<connVars, bcastVars, runVars, appVars>>

clockVars == <<now, ticks>>
envVars == <<sends, received>>
cfgVars == <<max_connections>>

(* ------------------------------ messages ------------------------------ *)
\* A text message is the sequence of the UTF-8 widths of its characters.
RECURSIVE Sum(_)
Sum(s) == IF s = <<>> THEN 0 ELSE Head(s) + Sum(Tail(s))

\* len(message) of a str: the number of characters
StrLen(m) == Len(m)
\* the size of the frame on the wire, in bytes
ByteLen(m) == Sum(m)

\* one ASCII character
Small == <<1>>
\* max_message_size characters, the first two bytes wide
Wide == [i \in 1..max_message_size |-> IF i = 1 THEN 2 ELSE 1]
\* max_message_size + 1 ASCII characters
Long == [i \in 1..(max_message_size + 1) |-> 1]
\* one character two bytes wide
Other == <<2>>
Msgs == {Small, Wide, Long}
\* messages within the size limit
EchoMsgs == {Small, Other}

NoFrame == [none |-> TRUE]
SizeError ==
    [jsonrpc |-> "2.0",
     error |-> [code |-> CodeTooLarge, message |-> "Message too large"],
     id |-> "null"]
RateError ==
    [jsonrpc |-> "2.0",
     error |-> [code |-> CodeRateLimited, message |-> "Rate limit exceeded"],
     id |-> "null"]
CloseFrame ==
    [close |-> PolicyViolation, reason |-> "Maximum connections reached"]
\* the text request_handler returns for message m
Response(m) == [jsonrpc |-> "2.0", result |-> "ok", request |-> m]

(* ---------------------------- rate limiter ---------------------------- *)
\* a window that already counts the request that opens it
NewWindow_count1(t) == [count |-> 1, reset_time |-> t + Window]

\* lines 112-115, 119-122
NewWindow(t) == [count |-> 0, reset_time |-> t + Window]

\* a window is opened for every request, known identity or not
InitWindow_always(tbl, id, t) == (id :> NewWindow(t)) @@ tbl

\* lines 111-115
InitWindow(tbl, id, t) ==
    IF id \notin DOMAIN tbl THEN (id :> NewWindow(t)) @@ tbl ELSE tbl

\* the window is over as soon as its reset time is reached
WindowPassed_ge(w, t) == t >= w.reset_time

\* line 118
WindowPassed(w, t) == t > w.reset_time

\* lines 118-122
ResetWindow(tbl, id, t) ==
    IF WindowPassed(tbl[id], t) THEN [tbl EXCEPT ![id] = NewWindow(t)] ELSE tbl

\* one request more than the limit passes
LimitReached_gt(w) == w.count > rate_limit

\* line 125
LimitReached(w) == w.count >= rate_limit

\* the increment is written from a count read before another task's
\* increment: an allowed request leaves the count at one
check_rate_limit_lost(tbl, id, t) ==
    LET t2 == ResetWindow(InitWindow(tbl, id, t), id, t)
    IN  IF LimitReached(t2[id])
        THEN [allowed |-> FALSE, table |-> t2]
        ELSE [allowed |-> TRUE,
              table |-> [t2 EXCEPT ![id].count = 1]]

\* one counter for all clients: an allowed request is counted in every window
check_rate_limit_shared(tbl, id, t) ==
    LET t2 == ResetWindow(InitWindow(tbl, id, t), id, t)
    IN  IF LimitReached(t2[id])
        THEN [allowed |-> FALSE, table |-> t2]
        ELSE [allowed |-> TRUE,
              table |-> [i \in DOMAIN t2 |-> [t2[i] EXCEPT !.count = @ + 1]]]

\* a denied request starts the window's 60 seconds again
check_rate_limit_penalty(tbl, id, t) ==
    LET t2 == ResetWindow(InitWindow(tbl, id, t), id, t)
    IN  IF LimitReached(t2[id])
        THEN [allowed |-> FALSE,
              table |-> [t2 EXCEPT ![id].reset_time = t + Window]]
        ELSE [allowed |-> TRUE,
              table |-> [t2 EXCEPT ![id].count = @ + 1]]

\* _check_rate_limit: the returned flag and the table it leaves
check_rate_limit(tbl, id, t) ==
    LET t2 == ResetWindow(InitWindow(tbl, id, t), id, t)
    IN  IF LimitReached(t2[id])
        THEN [allowed |-> FALSE, table |-> t2]
        ELSE [allowed |-> TRUE,
              table |-> [t2 EXCEPT ![id].count = @ + 1]]

\* the rate limiter is asked before the size of the message is looked at
loop_rate_check_first(tbl, id, m, t) == check_rate_limit(tbl, id, t)

\* lines 158-177: a message found too large is answered and the loop
\* continues before _check_rate_limit is called
loop_rate_check(tbl, id, m, t) ==
    IF StrLen(m) > max_message_size
    THEN [allowed |-> FALSE, table |-> tbl]
    ELSE check_rate_limit(tbl, id, t)

(* ------------------------------ registry ------------------------------ *)
InList(l, x) == \E i \in 1..Len(l) : l[i] = x

\* drops the head of the list instead
list_remove_head(l, x) == Tail(l)

\* list.remove(x): drops the first occurrence
list_remove(l, x) ==
    LET i == CHOOSE k \in 1..Len(l) : l[k] = x /\ \A j \in 1..(k - 1) : l[j] # x
    IN  [k \in 1..(Len(l) - 1) |-> IF k < i THEN l[k] ELSE l[k + 1]]

\* one connection more than the limit is let in
AtCapacity_gt == Len(active_connections) > max_connections

\* line 144
AtCapacity == Len(active_connections) >= max_connections

\* the connection is registered before the capacity check
RegistryOnAccept_always(c) == Append(active_connections, c)

\* lines 144-152: the registry after _handle_client is entered for c
RegistryOnAccept(c) ==
    IF AtCapacity THEN active_connections ELSE Append(active_connections, c)

\* the finally block leaves the registry alone
Finally_keep(c) == active_connections

\* lines 204-207
Finally(c) ==
    IF InList(active_connections, c)
    THEN list_remove(active_connections, c)
    ELSE active_connections

\* no except clause for Exception: a handler fault leaves the coroutine
Escapes_uncaught(exc) == exc \in {"CancelledError", "Exception"}

\* lines 200-203: ConnectionClosed and Exception are caught; a CancelledError
\* is a BaseException and leaves the coroutine
Escapes(exc) == exc = "CancelledError"

\* websockets.serve(..., max_size=self.max_message_size): the library fails
\* the connection (1009) on a frame above max_size bytes
serve_max_size == max_message_size
TooBigForLibrary(m) == ByteLen(m) > serve_max_size

\* line 158
TooLarge(m) == StrLen(m) > max_message_size

\* the iterator hands out the newest frame of the queue
NextMessage_newest(q) == q[Len(q)]

\* line 156: the iterator hands out the oldest frame of the queue
NextMessage(q) == Head(q)

\* the handler is given the message without its first character
HandlerInput_cut(m) == Tail(m)

\* line 195: the handler is called with the message as received
HandlerInput(m) == m

\* the handler call does not suspend: nothing else runs until it is over
AtAwait_serial(c, label) ==
    /\ pc[c] = label
    /\ \A d \in Conns \ {c} : pc[d] # "handler"

\* lines 156, 195, 198: the task of connection c is suspended at this await
\* and resumes when what it awaits is there, whatever the other tasks await
AtAwait(c, label) == pc[c] = label

(* ----------------------------- broadcast ------------------------------- *)
\* lines 221-227
Notification ==
    [jsonrpc |-> "2.0", method |-> "server_notification",
     params |-> [message |-> "Server started and ready"]]

\* the broadcast drops a connection whose send failed
send_failed_remove(reg, c) == list_remove(reg, c)

\* lines 233-235: the except clause of the send only logs; the registry is
\* left to the connection's own task
send_failed(reg, c) == reg

\* no except clause: a failed send ends the broadcast
Swallowed_none(exc) == FALSE

\* lines 233-235: ConnectionClosed of a send is caught and dropped
Swallowed(exc) ==
    exc \in {"ConnectionClosedOK", "ConnectionClosedError1006",
             "ConnectionClosedError1009", "ConnectionClosed"}

(* ------------------------- TLS and the monitor ------------------------ *)
\* ssl_context.load_cert_chain(cert_path, key_path): line 276
load_cert_chain(f) == IF f.cert /\ f.key /\ f.loads THEN "ok" ELSE "SSLError"

\* no try around load_cert_chain: its exception leaves the function
create_ssl_context_unguarded(f) ==
    IF ~f.cert \/ ~f.key THEN "None"
    ELSE IF load_cert_chain(f) = "ok" THEN "SSLContext" ELSE "raised"

\* _create_ssl_context: lines 268-281
create_ssl_context(f) ==
    IF ~f.cert \/ ~f.key THEN "None"
    ELSE IF load_cert_chain(f) = "ok" THEN "SSLContext" ELSE "None"

\* line 302
protocol(ctx) == IF ctx = "SSLContext" THEN "wss" ELSE "ws"

\* lines 246-250: the entries of the table whose count is above half the limit
over_half_limit(tbl) ==
    Cardinality({id \in DOMAIN tbl : 2 * tbl[id].count > rate_limit})

\* cancel() that leaves the task as it is
task_cancel_noop(st) == st

\* monitor_task.cancel() (lines 324, 327): a task that has not finished gets
\* a CancelledError thrown into it at its next step, run or not, woken or not
task_cancel(st) ==
    IF st \in {"pending", "sleeping", "woken"} THEN "cancelling" ELSE st

(* -------------------------------- Init -------------------------------- *)
\* no file of ./certs is there
NoFiles == [cert |-> FALSE, key |-> FALSE, loads |-> FALSE]

\* _broadcast_message has not been called
BroadcastInit ==
    /\ bcast = "idle"
    /\ targets = <<>>
    /\ notified = [c \in Conns |-> <<>>]
    /\ bcast_raised = "none"

\* run() has not been entered
RunInit ==
    /\ runpc = "start"
    /\ run_exit = "none"
    /\ ssl_context = "unset"
    /\ listening = "none"
    /\ monitor = "none"
    /\ monitor_started = 0
    /\ monitor_ticks = 0
    /\ monitor_report = <<>>

\* the transport after its construction (lines 89-96), nobody connected
TransportInit ==
    /\ BroadcastInit
    /\ RunInit
    /\ received = [c \in Conns |-> <<>>]
    /\ active_connections = <<>>
    /\ client_rate_limits = <<>>
    /\ now = 0
    /\ ticks = 0
    /\ pc = [c \in Conns |-> "idle"]
    /\ remote_address = [c \in Conns |-> 0]
    /\ wsState = [c \in Conns |-> "NONE"]
    /\ inbox = [c \in Conns |-> <<>>]
    /\ out = [c \in Conns |-> NoFrame]
    /\ sent = [c \in Conns |-> <<>>]
    /\ dispatched = [c \in Conns |-> <<>>]
    /\ requests = [i \in Idents |-> <<>>]
    /\ oversized = [c \in Conns |-> 0]
    /\ exit = [c \in Conns |-> "none"]
    /\ raised = [c \in Conns |-> "none"]
    /\ sends = 0

\* LunoClient.__init__ (client.py 73-77): no call made yet
LunoInit ==
    /\ rate_limiter = max_requests_per_minute
    /\ call = [k \in Calls |-> "idle"]
    /\ api_started = <<>>

\* STDIOTransport.run not yet at its first read, with standard input inp
StdioInit(inp) ==
    /\ stdin = inp
    /\ stdio_pc = "read"
    /\ line = <<>>
    /\ handled = <<>>
    /\ stdout = <<>>
    /\ stdio_log = <<>>

\* EnhancedWebSocketClient.__init__ (enhanced_websocket_client.py 47-52),
\* connected, its two tasks created
ClientInit ==
    /\ id_counter = 0
    /\ client_task = [t \in Tasks |-> "idle"]
    /\ request_id = [t \in Tasks |-> 0]
    /\ to_server = <<>>
    /\ to_client = <<>>
    /\ recv_waiter = "none"
    /\ returned = <<>>
    /\ websocket = "open"
    /\ disconnected = FALSE

Init ==
    /\ TransportInit
    /\ LunoInit
    /\ StdioInit(<<>>)
    /\ ClientInit
    /\ files = NoFiles
    /\ max_connections \in 1..MaxCapacity

(* ------------------------------ actions ------------------------------- *)
\* the address of a new connection: one no open connection has; among the
\* addresses never seen only the smallest (they are interchangeable)
UsedIdents == {remote_address[c] : c \in {d \in Conns : pc[d] # "idle"}}
OpenIdents == {remote_address[c] : c \in {d \in Conns : wsState[d] = "OPEN"}}
NewIdents ==
    (UsedIdents \ OpenIdents) \cup
    {i \in Idents : i \notin UsedIdents /\ \A j \in Idents \ UsedIdents : i <= j}

\* the monotonic clock is read d seconds after its last reading
ClockRead(d) ==
    /\ d # 0 => ticks < MaxTicks
    /\ now' = now + d
    /\ ticks' = IF d = 0 THEN ticks ELSE ticks + 1

\* the exception the library raises on a connection in state ws: the peer
\* closed with 1000, the connection was lost (1006), or the library failed it
\* on a frame above max_size (1009)
ClosedException(ws) ==
    CASE ws = "CLOSED_OK" -> "ConnectionClosedOK"
      [] ws = "CLOSED_ERR" -> "ConnectionClosedError1006"
      [] ws = "FAILED" -> "ConnectionClosedError1009"

\* the end of _handle_client by exception exc ("none": the loop ended);
\* the library then finishes closing the connection
Terminate(c, exc) ==
    /\ active_connections' = Finally(c)
    /\ pc' = [pc EXCEPT ![c] = "done"]
    /\ exit' = [exit EXCEPT ![c] = exc]
    /\ raised' = [raised EXCEPT ![c] = IF Escapes(exc) THEN exc ELSE "none"]
    /\ wsState' = [wsState EXCEPT ![c] = "CLOSED"]
    /\ out' = [out EXCEPT ![c] = NoFrame]

\* the library calls _handle_client(ws): lines 144-153
Accept(c, id) ==
    /\ pc[c] = "idle"
    /\ \A d \in Conns : d < c => pc[d] # "idle"
    /\ id \in NewIdents
    /\ remote_address' = [remote_address EXCEPT ![c] = id]
    /\ wsState' = [wsState EXCEPT ![c] = "OPEN"]
    /\ pc' = [pc EXCEPT ![c] = IF AtCapacity THEN "closing" ELSE "recv"]
    /\ active_connections' = RegistryOnAccept(c)
    /\ UNCHANGED <<cfgVars, appVars, bcastVars, runVars, client_rate_limits, clockVars, envVars, inbox, out, sent,
                   dispatched, requests, oversized, exit, raised>>

\* await websocket.close(1008, ...) completes; return (lines 146-147)
CloseRejected(c) ==
    /\ pc[c] = "closing"
    /\ pc' = [pc EXCEPT ![c] = "done"]
    /\ exit' = [exit EXCEPT ![c] = "rejected"]
    /\ sent' = [sent EXCEPT ![c] =
                  IF wsState[c] = "OPEN" THEN Append(@, CloseFrame) ELSE @]
    /\ wsState' = [wsState EXCEPT ![c] = "CLOSED"]
    /\ UNCHANGED <<cfgVars, appVars, bcastVars, runVars, active_connections, client_rate_limits, clockVars, envVars,
                   remote_address, inbox, out, dispatched, requests,
                   oversized, raised>>

\* a client sends a frame; the library queues it, or fails the connection
\* when the frame is above max_size
ClientSend(c, m, budget) ==
    /\ wsState[c] = "OPEN"
    /\ sends < budget
    /\ sends' = sends + 1
    /\ oversized' = [oversized EXCEPT ![c] =
                       IF ByteLen(m) > max_message_size THEN @ + 1 ELSE @]
    /\ IF TooBigForLibrary(m)
       THEN /\ wsState' = [wsState EXCEPT ![c] = "FAILED"]
            /\ UNCHANGED inbox
       ELSE /\ inbox' = [inbox EXCEPT ![c] = Append(@, m)]
            /\ UNCHANGED wsState
    /\ received' = [received EXCEPT ![c] =
                      IF TooBigForLibrary(m) THEN @ ELSE Append(@, m)]
    /\ UNCHANGED <<cfgVars, appVars, bcastVars, runVars, active_connections, client_rate_limits, clockVars,
                   pc, remote_address, out, sent, dispatched, requests, exit,
                   raised>>

\* a client closes its connection, cleanly (1000) or not (1006)
ClientClose(c, how) ==
    /\ wsState[c] = "OPEN"
    /\ wsState' = [wsState EXCEPT ![c] = how]
    /\ UNCHANGED <<cfgVars, appVars, bcastVars, runVars, active_connections, client_rate_limits, clockVars, envVars,
                   pc, remote_address, inbox, out, sent, dispatched,
                   requests, oversized, exit, raised>>

\* the receive loop gets the next message: lines 156-195, up to the await;
\* d is the time that has passed since the clock was last read
Receive(c, d) ==
    /\ AtAwait(c, "recv")
    /\ inbox[c] # <<>>
    /\ ClockRead(d)
    /\ LET m == NextMessage(inbox[c])
           id == remote_address[c]
           r == loop_rate_check(client_rate_limits, id, m, now')
       IN  /\ inbox' = [inbox EXCEPT ![c] = Tail(@)]
           /\ IF TooLarge(m)
              THEN /\ out' = [out EXCEPT ![c] = SizeError]
                   /\ pc' = [pc EXCEPT ![c] = "send"]
                   /\ client_rate_limits' = r.table
                   /\ UNCHANGED <<dispatched, requests>>
              ELSE /\ client_rate_limits' = r.table
                   /\ requests' = [requests EXCEPT ![id] = Append(@,
                          [at |-> now', allowed |-> r.allowed,
                           window |-> r.table[id].reset_time])]
                   /\ IF ~r.allowed
                      THEN /\ out' = [out EXCEPT ![c] = RateError]
                           /\ pc' = [pc EXCEPT ![c] = "send"]
                           /\ UNCHANGED dispatched
                      ELSE /\ pc' = [pc EXCEPT ![c] = "handler"]
                           /\ dispatched' = [dispatched EXCEPT ![c] =
                                                 Append(@, HandlerInput(m))]
                           /\ UNCHANGED out
    /\ UNCHANGED <<cfgVars, appVars, bcastVars, runVars, active_connections, envVars, remote_address,
                   wsState, sent, oversized, exit, raised>>

\* the iterator finds the connection closed: the loop ends (close 1000) or
\* ConnectionClosed is raised; lines 200-208
EndOfStream(c) ==
    /\ pc[c] = "recv"
    /\ inbox[c] = <<>>
    /\ wsState[c] # "OPEN"
    /\ Terminate(c, IF wsState[c] = "CLOSED_OK" THEN "none"
                     ELSE ClosedException(wsState[c]))
    /\ UNCHANGED <<cfgVars, appVars, bcastVars, runVars, client_rate_limits, clockVars, envVars, remote_address,
                   inbox, sent, dispatched, requests, oversized>>

\* request_handler returns its response: lines 195-198, up to the await
HandlerReturn(c) ==
    /\ AtAwait(c, "handler")
    /\ out' = [out EXCEPT ![c] = Response(dispatched[c][Len(dispatched[c])])]
    /\ pc' = [pc EXCEPT ![c] = "send"]
    /\ UNCHANGED <<cfgVars, appVars, bcastVars, runVars, active_connections, client_rate_limits, clockVars, envVars,
                   remote_address, wsState, inbox, sent, dispatched,
                   requests, oversized, exit, raised>>

\* request_handler raises: lines 202-208
HandlerRaise(c) ==
    /\ pc[c] = "handler"
    /\ Terminate(c, "Exception")
    /\ UNCHANGED <<cfgVars, appVars, bcastVars, runVars, client_rate_limits, clockVars, envVars, remote_address,
                   inbox, sent, dispatched, requests, oversized>>

\* await websocket.send(...) completes, or raises ConnectionClosed
Send(c) ==
    /\ AtAwait(c, "send")
    /\ IF wsState[c] = "OPEN"
       THEN /\ sent' = [sent EXCEPT ![c] = Append(@, out[c])]
            /\ out' = [out EXCEPT ![c] = NoFrame]
            /\ pc' = [pc EXCEPT ![c] = "recv"]
            /\ UNCHANGED <<active_connections, wsState, exit, raised>>
       ELSE /\ Terminate(c, ClosedException(wsState[c]))
            /\ UNCHANGED sent
    /\ UNCHANGED <<cfgVars, appVars, bcastVars, runVars, client_rate_limits, clockVars, envVars, remote_address,
                   inbox, dispatched, requests, oversized>>

\* the task is cancelled while suspended in the loop
Cancel(c) ==
    /\ pc[c] \in {"recv", "handler", "send"}
    /\ Terminate(c, "CancelledError")
    /\ UNCHANGED <<cfgVars, appVars, bcastVars, runVars, client_rate_limits, clockVars, envVars, remote_address,
                   inbox, sent, dispatched, requests, oversized>>

\* _broadcast_message is entered: lines 217-230, up to the first send
BroadcastStart ==
    /\ bcast = "scheduled"
    /\ IF active_connections = <<>>
       THEN /\ bcast' = "done"
            /\ targets' = <<>>
       ELSE /\ bcast' = "sending"
            /\ targets' = active_connections
    /\ UNCHANGED <<connVars, appVars, runVars, notified, bcast_raised>>

\* one pass of the loop of lines 230-235: the send to the next connection of
\* the copy completes or raises
BroadcastSend ==
    /\ bcast = "sending"
    /\ LET c == Head(targets)
           exc == IF wsState[c] = "OPEN" THEN "none"
                  ELSE IF wsState[c] = "CLOSED" THEN "ConnectionClosed"
                  ELSE ClosedException(wsState[c])
       IN  /\ IF exc = "none" \/ Swallowed(exc)
              THEN /\ notified' = [notified EXCEPT ![c] =
                                     IF exc = "none" THEN Append(@, Notification) ELSE @]
                   /\ targets' = Tail(targets)
                   /\ bcast' = IF Tail(targets) = <<>> THEN "done" ELSE "sending"
                   /\ UNCHANGED bcast_raised
              ELSE /\ bcast_raised' = exc
                   /\ bcast' = "done"
                   /\ targets' = <<>>
                   /\ UNCHANGED notified
           /\ active_connections' =
                  IF exc # "none" /\ Swallowed(exc)
                  THEN send_failed(active_connections, c)
                  ELSE active_connections
    /\ UNCHANGED <<cfgVars, client_rate_limits, clockVars, envVars, pc,
                   remote_address, wsState, inbox, out, sent, dispatched,
                   requests, oversized, exit, raised>>
    /\ UNCHANGED <<appVars, runVars>>

\* run() is entered: lines 290-303, up to the await of websockets.serve
RunStart ==
    /\ runpc = "start"
    /\ LET ctx == create_ssl_context(files)
       IN  IF ctx = "raised"
           THEN /\ runpc' = "done"
                /\ run_exit' = "SSLError"
                /\ UNCHANGED <<ssl_context, monitor, monitor_started>>
           ELSE /\ ssl_context' = ctx
                /\ monitor' = "pending"
                /\ monitor_started' = monitor_started + 1
                /\ runpc' = "serve"
                /\ UNCHANGED run_exit
    /\ UNCHANGED <<connVars, appVars, bcastVars, files, listening, monitor_ticks,
                   monitor_report>>

\* websockets.serve returns the server: lines 303-320, up to wait_closed
ServeOk ==
    /\ runpc = "serve"
    /\ listening' = protocol(ssl_context)
    /\ bcast' = "scheduled"
    /\ runpc' = "wait_closed"
    /\ UNCHANGED <<connVars, appVars, targets, notified, bcast_raised, files, run_exit,
                   ssl_context, monitor, monitor_started, monitor_ticks,
                   monitor_report>>

\* the end of run() by exception exc ("none": wait_closed returned):
\* the except clause where it applies, and the finally block (lines 321-327)
RunEnd(exc) ==
    /\ runpc' = "done"
    /\ run_exit' = exc
    /\ monitor' = IF exc = "Exception"
                  THEN task_cancel(task_cancel(monitor))
                  ELSE task_cancel(monitor)
    /\ UNCHANGED <<connVars, appVars, bcastVars, files, ssl_context, listening,
                   monitor_started, monitor_ticks, monitor_report>>

\* websockets.serve raises (the port is taken)
ServeFail ==
    /\ runpc = "serve"
    /\ RunEnd("Exception")

\* the server has closed: wait_closed returns
ServerClosed ==
    /\ runpc = "wait_closed"
    /\ RunEnd("none")

\* run() is cancelled while it awaits
RunCancel ==
    /\ runpc \in {"serve", "wait_closed"}
    /\ RunEnd("CancelledError")

\* the monitor task runs for the first time, up to its sleep (lines 239-240)
MonitorBegin ==
    /\ monitor = "pending"
    /\ monitor' = "sleeping"
    /\ UNCHANGED <<connVars, appVars, bcastVars, files, runpc, run_exit, ssl_context,
                   listening, monitor_started, monitor_ticks, monitor_report>>

\* the 60 seconds of the sleep are over: the task is to be resumed
MonitorTimer ==
    /\ monitor = "sleeping"
    /\ monitor' = "woken"
    /\ now' = now + MonitorInterval
    /\ UNCHANGED <<connStill, appVars>>
    /\ UNCHANGED <<bcastVars, files, runpc, run_exit, ssl_context,
                   listening, monitor_started, monitor_ticks, monitor_report>>

\* the monitor is resumed: lines 241-253, and back to the sleep
MonitorTick ==
    /\ monitor = "woken"
    /\ monitor_ticks < MaxMonitorTicks
    /\ monitor_ticks' = monitor_ticks + 1
    /\ monitor_report' =
           IF DOMAIN client_rate_limits = {}
           THEN <<Len(active_connections)>>
           ELSE <<Len(active_connections), over_half_limit(client_rate_limits)>>
    /\ monitor' = "sleeping"
    /\ UNCHANGED <<connVars, appVars, bcastVars, files, runpc, run_exit, ssl_context,
                   listening, monitor_started>>

\* the CancelledError is thrown into the monitor: the task ends
MonitorCancelled ==
    /\ monitor = "cancelling"
    /\ monitor' = "cancelled"
    /\ UNCHANGED <<connVars, appVars, bcastVars, files, runpc, run_exit, ssl_context,
                   listening, monitor_started, monitor_ticks, monitor_report>>

Next ==
    \/ \E c \in Conns, id \in Idents : Accept(c, id)
    \/ \E c \in Conns : CloseRejected(c)
    \/ \E c \in Conns, m \in Msgs : ClientSend(c, m, MaxSends)
    \/ \E c \in Conns, how \in {"CLOSED_OK", "CLOSED_ERR"} : ClientClose(c, how)
    \/ \E c \in Conns : Receive(c, 0)
    \/ \E c \in Conns : EndOfStream(c)
    \/ \E c \in Conns : HandlerReturn(c)
    \/ \E c \in Conns : HandlerRaise(c)
    \/ \E c \in Conns : Send(c)
    \/ \E c \in Conns : Cancel(c)

\* The transport with any number of clients; all requests of the run fall
\* into one reading of the clock.
Spec == Init /\ [][Next]_vars

\* One client that keeps its connection, with time passing between its
\* requests.
TimedInit == Init /\ max_connections = MaxCapacity

TimedNext ==
    \/ Accept(1, 1)
    \/ ClientSend(1, Small, MaxTimedSends)
    \/ \E d \in {0} \cup ClockSteps : Receive(1, d)
    \/ HandlerReturn(1)
    \/ Send(1)

SpecTimed == TimedInit /\ [][TimedNext]_vars

\* Clients that keep their connections and send different messages within
\* the size limit, one more than an identity's budget in all; the handler
\* answers every request.
EchoNext ==
    \/ \E c \in Conns, id \in Idents : Accept(c, id)
    \/ \E c \in Conns, m \in EchoMsgs : ClientSend(c, m, rate_limit + 1)
    \/ \E c \in Conns : Receive(c, 0)
    \/ \E c \in Conns : HandlerReturn(c)
    \/ \E c \in Conns : Send(c)

SpecEcho == TimedInit /\ [][EchoNext]_vars

\* The handler call for the first connection's message never returns; the
\* tasks of the other connections are run whenever they can be resumed.
Others == Conns \ {1}

StalledNext ==
    \/ \E c \in Conns, id \in Idents : Accept(c, id)
    \/ \E c \in Conns, m \in EchoMsgs : ClientSend(c, m, rate_limit + 1)
    \/ \E c \in Conns : Receive(c, 0)
    \/ \E c \in Others : HandlerReturn(c)
    \/ \E c \in Others : Send(c)

SpecStalled ==
    /\ TimedInit
    /\ [][StalledNext]_vars
    /\ \A c \in Others :
           /\ WF_vars(Receive(c, 0))
           /\ WF_vars(HandlerReturn(c))
           /\ WF_vars(Send(c))

\* Clients that send, close or lose their connections, tasks that are
\* cancelled, and every task being resumed when it can be: the receive loop
\* gets the next message or the end of the stream, a handler call in
\* progress returns or raises, a send completes.
FairNext ==
    \/ \E c \in Conns, id \in Idents : Accept(c, id)
    \/ \E c \in Conns, m \in {Small, Long} : ClientSend(c, m, MaxFairSends)
    \/ \E c \in Conns, how \in {"CLOSED_OK", "CLOSED_ERR"} : ClientClose(c, how)
    \/ \E c \in Conns : Receive(c, 0)
    \/ \E c \in Conns : EndOfStream(c)
    \/ \E c \in Conns : HandlerReturn(c)
    \/ \E c \in Conns : HandlerRaise(c)
    \/ \E c \in Conns : Send(c)
    \/ \E c \in Conns : Cancel(c)

SpecFair ==
    /\ TimedInit
    /\ [][FairNext]_vars
    /\ \A c \in Conns :
           /\ WF_vars(Receive(c, 0))
           /\ WF_vars(EndOfStream(c))
           /\ WF_vars(HandlerReturn(c) \/ HandlerRaise(c))
           /\ WF_vars(Send(c))

\* run() from its start to its end, with any certificate and key files, and
\* the monitor task it creates.
FileStates == [cert : BOOLEAN, key : BOOLEAN, loads : BOOLEAN]

RunStartInit ==
    /\ TransportInit
    /\ LunoInit
    /\ StdioInit(<<>>)
    /\ ClientInit
    /\ files \in FileStates
    /\ max_connections = MaxCapacity

RunNext ==
    \/ RunStart
    \/ ServeOk
    \/ ServeFail
    \/ ServerClosed
    \/ RunCancel
    \/ MonitorBegin
    \/ MonitorTimer
    \/ MonitorTick
    \/ MonitorCancelled
    \/ BroadcastStart

SpecRun == RunStartInit /\ [][RunNext]_vars

\* One client that keeps its connection, with time passing between its
\* requests, and the connection monitor reporting every 60 seconds.
MonitorNext ==
    \/ RunStart
    \/ ServeOk
    \/ MonitorBegin
    \/ MonitorTimer
    \/ MonitorTick
    \/ runpc = "wait_closed" /\ Accept(1, 1)
    \/ ClientSend(1, Small, MaxTimedSends)
    \/ \E d \in {0} \cup ClockSteps : Receive(1, d)
    \/ HandlerReturn(1)
    \/ Send(1)

SpecMonitor == TimedInit /\ [][MonitorNext]_vars

\* The broadcast that run() starts once the server listens, with clients
\* connecting and closing around it.
BroadcastNext ==
    \/ RunStart
    \/ ServeOk
    \/ runpc = "wait_closed" /\ \E c \in Conns, id \in Idents : Accept(c, id)
    \/ \E c \in Conns, how \in {"CLOSED_OK", "CLOSED_ERR"} : ClientClose(c, how)
    \/ \E c \in Conns : EndOfStream(c)
    \/ BroadcastStart
    \/ BroadcastSend

SpecBroadcast == TimedInit /\ [][BroadcastNext]_vars

\* Clients of one address that reconnect, send messages within and above
\* the size limit, with time passing between the requests; the handler
\* answers every request.
SizedNext ==
    \/ \E c \in Conns : Accept(c, 1)
    \/ \E c \in Conns, m \in {Small, Long} : ClientSend(c, m, MaxTimedSends)
    \/ \E c \in Conns, d \in {0} \cup ClockSteps : Receive(c, d)
    \/ \E c \in Conns : EndOfStream(c)
    \/ \E c \in Conns : HandlerReturn(c)
    \/ \E c \in Conns : Send(c)

SpecSized == TimedInit /\ [][SizedNext]_vars

(* --------------------------- Luno API client -------------------------- *)
\* the request of call k goes out to the exchange (client.py 118-120)
StartRequest(k) ==
    /\ rate_limiter' = rate_limiter - 1
    /\ api_started' = Append(api_started, now)
    /\ call' = [call EXCEPT ![k] = "inflight"]

\* _request is entered: async with self.rate_limit() (client.py 115); the
\* semaphore is taken at once when its value is positive
RequestEnter(k) ==
    /\ call[k] = "idle"
    /\ IF rate_limiter > 0
       THEN StartRequest(k)
       ELSE /\ call' = [call EXCEPT ![k] = "waiting"]
            /\ UNCHANGED <<rate_limiter, api_started>>
    /\ UNCHANGED <<connVars, bcastVars, runVars, stdioVars, clientVars>>

\* a call that waited for the semaphore gets it
RequestAcquire(k) ==
    /\ call[k] = "waiting"
    /\ rate_limiter > 0
    /\ StartRequest(k)
    /\ UNCHANGED <<connVars, bcastVars, runVars, stdioVars, clientVars>>

\* the request is over, by a response or an exception: the semaphore is
\* released on the way out of the async with (client.py 115-134)
RequestLeave(k) ==
    /\ call[k] = "inflight"
    /\ call' = [call EXCEPT ![k] = "done"]
    /\ rate_limiter' = rate_limiter + 1
    /\ UNCHANGED api_started
    /\ UNCHANGED <<connVars, bcastVars, runVars, stdioVars, clientVars>>

\* time passes
Elapse(d) ==
    /\ ClockRead(d)
    /\ UNCHANGED <<connRest, bcastVars, runVars, appVars>>

LunoNext ==
    \/ \E k \in Calls : RequestEnter(k)
    \/ \E k \in Calls : RequestAcquire(k)
    \/ \E k \in Calls : RequestLeave(k)
    \/ \E d \in ClockSteps : Elapse(d)

\* Tool calls that use one LunoClient, with time passing.
SpecLuno == TimedInit /\ [][LunoNext]_vars

(* ------------------------- standard-stream transport ------------------ *)
\* the characters str.strip() removes
Whitespace == {" ", "\n"}

RECURSIVE lstrip(_)
lstrip(l) == IF l # <<>> /\ Head(l) \in Whitespace THEN lstrip(Tail(l)) ELSE l

RECURSIVE rstrip(_)
rstrip(l) ==
    IF l # <<>> /\ l[Len(l)] \in Whitespace
    THEN rstrip(SubSeq(l, 1, Len(l) - 1))
    ELSE l

\* a strip that takes off the line terminator only
strip_newline(l) ==
    IF l # <<>> /\ l[Len(l)] = "\n" THEN SubSeq(l, 1, Len(l) - 1) ELSE l

\* line.strip() (transport.py 53)
strip(l) == rstrip(lstrip(l))

\* the lines sys.stdin.readline returns: every line but the last one of a
\* stream ends with its newline
InputLines == {<<"\n">>, <<" ", "\n">>, <<"a", "\n">>, <<" ", "b", " ", "\n">>, <<"a", " ", "b">>}

Terminated(l) == l # <<>> /\ l[Len(l)] = "\n"

StdinInputs ==
    {inp \in UNION {[1..n -> InputLines] : n \in 0..MaxLines} :
        \A i \in 1..Len(inp) : i < Len(inp) => Terminated(inp[i])}

\* what request_handler answers to a request
HandlerResponse(req) == <<"r">> \o req

ReadEvent(l) == [op |-> "read", text |-> l]
CallEvent(l) == [op |-> "call", text |-> l]
WriteEvent(l) == [op |-> "write", text |-> l]

\* one readline (transport.py 46-60): end of input ends the loop, a line
\* that is empty after strip() goes back to the read, any other line is
\* passed to request_handler
StdioRead ==
    /\ stdio_pc = "read"
    /\ IF stdin = <<>>
       THEN /\ stdio_pc' = "done"
            /\ stdio_log' = Append(stdio_log, ReadEvent(<<>>))
            /\ UNCHANGED <<stdin, line, handled>>
       ELSE /\ stdin' = Tail(stdin)
            /\ IF strip(Head(stdin)) = <<>>
               THEN /\ stdio_log' = Append(stdio_log, ReadEvent(Head(stdin)))
                    /\ UNCHANGED <<stdio_pc, line, handled>>
               ELSE /\ line' = strip(Head(stdin))
                    /\ handled' = Append(handled, strip(Head(stdin)))
                    /\ stdio_log' = stdio_log \o <<ReadEvent(Head(stdin)),
                                                  CallEvent(strip(Head(stdin)))>>
                    /\ stdio_pc' = "handler"
    /\ UNCHANGED stdout
    /\ UNCHANGED <<connVars, bcastVars, runVars, lunoVars, clientVars>>

\* request_handler returns and the response is printed (transport.py 60-63)
StdioHandlerReturn ==
    /\ stdio_pc = "handler"
    /\ stdout' = Append(stdout, HandlerResponse(line))
    /\ stdio_log' = Append(stdio_log, WriteEvent(HandlerResponse(line)))
    /\ stdio_pc' = "read"
    /\ UNCHANGED <<stdin, line, handled>>
    /\ UNCHANGED <<connVars, bcastVars, runVars, lunoVars, clientVars>>

\* request_handler raises: nothing in run() catches it (transport.py 44-63)
StdioHandlerRaise ==
    /\ stdio_pc = "handler"
    /\ stdio_pc' = "raised"
    /\ UNCHANGED <<stdin, line, handled, stdout, stdio_log>>
    /\ UNCHANGED <<connVars, bcastVars, runVars, lunoVars, clientVars>>

StdioNext ==
    \/ StdioRead
    \/ StdioHandlerReturn
    \/ StdioHandlerRaise

StdioRunInit ==
    /\ TransportInit
    /\ LunoInit
    /\ ClientInit
    /\ \E inp \in StdinInputs : StdioInit(inp)
    /\ files = NoFiles
    /\ max_connections = MaxCapacity

\* STDIOTransport.run on a standard input that ends; the read completes and
\* the handler call completes, by a return or an exception.
SpecStdio ==
    /\ StdioRunInit
    /\ [][StdioNext]_vars
    /\ WF_vars(StdioRead)
    /\ WF_vars(StdioHandlerReturn \/ StdioHandlerRaise)

(* ----------------------- enhanced WebSocket client -------------------- *)
\* send_request returns None
None == 0

\* what a send_request call of task t returns for its request
Returned(t, resp) == [task |-> t, request |-> request_id[t], response |-> resp]

\* send_request up to the await of websocket.send
\* (enhanced_websocket_client.py 102-124): a client that knows it is
\* disconnected connects first (59-74; the capabilities request that
\* connect() makes is one more send_request of the task); a connect that
\* fails returns None and changes nothing
SendRequest(t) ==
    /\ client_task[t] = "idle"
    /\ id_counter < MaxRequests
    /\ id_counter' = id_counter + 1
    /\ request_id' = [request_id EXCEPT ![t] = id_counter + 1]
    /\ client_task' = [client_task EXCEPT ![t] = "send"]
    /\ IF disconnected
       THEN /\ websocket' = "open"
            /\ disconnected' = FALSE
            /\ to_server' = <<>>
            /\ to_client' = <<>>
       ELSE UNCHANGED <<websocket, disconnected, to_server, to_client>>
    /\ UNCHANGED <<recv_waiter, returned>>
    /\ UNCHANGED <<connVars, bcastVars, runVars, lunoVars, stdioVars>>

\* websocket.send completes, or raises ConnectionClosed
\* (enhanced_websocket_client.py 124, 135-138)
SendDone(t) ==
    /\ client_task[t] = "send"
    /\ IF websocket = "open"
       THEN /\ to_server' = Append(to_server, request_id[t])
            /\ client_task' = [client_task EXCEPT ![t] = "sent"]
            /\ UNCHANGED <<disconnected, returned>>
       ELSE /\ disconnected' = TRUE
            /\ returned' = Append(returned, Returned(t, None))
            /\ client_task' = [client_task EXCEPT ![t] = "idle"]
            /\ UNCHANGED to_server
    /\ UNCHANGED <<id_counter, request_id, to_client, recv_waiter, websocket>>
    /\ UNCHANGED <<connVars, bcastVars, runVars, lunoVars, stdioVars>>

\* websocket.recv() is called (enhanced_websocket_client.py 127-141): the
\* library raises when another coroutine is already waiting in recv, hands
\* out a message it has queued, raises ConnectionClosed on a closed
\* connection, and suspends the caller otherwise
RecvBegin(t) ==
    /\ client_task[t] = "sent"
    /\ IF recv_waiter # "none"
       THEN /\ returned' = Append(returned, Returned(t, None))
            /\ client_task' = [client_task EXCEPT ![t] = "idle"]
            /\ UNCHANGED <<to_client, recv_waiter, disconnected>>
       ELSE IF to_client # <<>>
       THEN /\ returned' = Append(returned, Returned(t, Head(to_client)))
            /\ to_client' = Tail(to_client)
            /\ client_task' = [client_task EXCEPT ![t] = "idle"]
            /\ UNCHANGED <<recv_waiter, disconnected>>
       ELSE IF websocket # "open"
       THEN /\ returned' = Append(returned, Returned(t, None))
            /\ disconnected' = TRUE
            /\ client_task' = [client_task EXCEPT ![t] = "idle"]
            /\ UNCHANGED <<to_client, recv_waiter>>
       ELSE /\ recv_waiter' = t
            /\ client_task' = [client_task EXCEPT ![t] = "recv"]
            /\ UNCHANGED <<to_client, returned, disconnected>>
    /\ UNCHANGED <<id_counter, request_id, to_server, websocket>>
    /\ UNCHANGED <<connVars, bcastVars, runVars, lunoVars, stdioVars>>

\* the server answers the oldest request of the connection with a response
\* of the same id; the response goes to the coroutine waiting in recv, or
\* into the library's queue
ServerAnswer ==
    /\ websocket = "open"
    /\ to_server # <<>>
    /\ to_server' = Tail(to_server)
    /\ IF recv_waiter # "none"
       THEN /\ returned' = Append(returned, Returned(recv_waiter, Head(to_server)))
            /\ client_task' = [client_task EXCEPT ![recv_waiter] = "idle"]
            /\ recv_waiter' = "none"
            /\ UNCHANGED to_client
       ELSE /\ to_client' = Append(to_client, Head(to_server))
            /\ UNCHANGED <<returned, client_task, recv_waiter>>
    /\ UNCHANGED <<id_counter, request_id, websocket, disconnected>>
    /\ UNCHANGED <<connVars, bcastVars, runVars, lunoVars, stdioVars>>

\* the connection is lost: the requests on their way are lost with it and
\* the coroutine waiting in recv gets ConnectionClosed
\* (enhanced_websocket_client.py 135-138)
ConnectionLost ==
    /\ websocket = "open"
    /\ websocket' = "closed"
    /\ to_server' = <<>>
    /\ IF recv_waiter # "none"
       THEN /\ returned' = Append(returned, Returned(recv_waiter, None))
            /\ client_task' = [client_task EXCEPT ![recv_waiter] = "idle"]
            /\ recv_waiter' = "none"
            /\ disconnected' = TRUE
       ELSE UNCHANGED <<returned, client_task, recv_waiter, disconnected>>
    /\ UNCHANGED <<id_counter, request_id, to_client>>
    /\ UNCHANGED <<connVars, bcastVars, runVars, lunoVars, stdioVars>>

ClientNext ==
    \/ \E t \in Tasks : SendRequest(t)
    \/ \E t \in Tasks : SendDone(t)
    \/ \E t \in Tasks : RecvBegin(t)
    \/ ServerAnswer
    \/ ConnectionLost

\* The price-monitoring task and the keep-alive task of one client, each
\* issuing one request after the other over the client's connection.
SpecClient == TimedInit /\ [][ClientNext]_vars

(* ------------------------------- claims ------------------------------- *)
Count(seq, x) == Cardinality({i \in 1..Len(seq) : seq[i] = x})
IsError(f, code) ==
    /\ "error" \in DOMAIN f
    /\ f.error.code = code
    /\ f.error.message # ""
    /\ f.id = "null"
IsClose(f, code) == "close" \in DOMAIN f /\ f.close = code /\ f.reason # ""
Without(l, c) == SelectSeq(l, LAMBDA x : x # c)
InLoop(c) == pc[c] \in {"recv", "handler", "send"}
Rejected(c) == pc[c] = "closing" \/ (pc[c] = "done" /\ exit[c] = "rejected")
Admitted(c) == InLoop(c) \/ (pc[c] = "done" /\ exit[c] # "rejected")
\* the client has not closed, the task was not cancelled, the handler did not raise
NoFault(c) ==
    /\ wsState[c] \notin {"CLOSED_OK", "CLOSED_ERR"}
    /\ exit[c] \notin {"CancelledError", "Exception", "none",
                       "ConnectionClosedOK", "ConnectionClosedError1006"}
\* requests of identity id allowed at a clock reading in [from, to]
AllowedIn(id, from, to) ==
    Cardinality({j \in 1..Len(requests[id]) :
                    /\ requests[id][j].allowed
                    /\ requests[id][j].at >= from
                    /\ requests[id][j].at <= to})
\* requests of identity id allowed in the window that ends at reset
AllowedInWindow(id, reset) ==
    Cardinality({j \in 1..Len(requests[id]) :
                    requests[id][j].allowed /\ requests[id][j].window = reset})
\* the end of the window that identity id's first request opened
FirstWindowEnd(id) == requests[id][1].at + Window

\* C1: in every reachable state the registry holds at most max_connections
\* connections.
C1_RegistryWithinCapacity == Len(active_connections) <= max_connections

\* a connection arrived at a full registry and is being turned away
C1_Witness ==
    /\ Len(active_connections) = max_connections
    /\ \E c \in Conns : pc[c] = "closing"

\* C2: a message above max_message_size bytes is never passed to the handler,
\* and a client that sent such messages (and did not close, was not cancelled
\* and saw no handler exception) has been sent one -32600 error with id null
\* for each of them once its task has nothing left to process.
C2_OversizeAnswered ==
    \A c \in Conns :
        /\ \A i \in 1..Len(dispatched[c]) :
               ByteLen(dispatched[c][i]) <= max_message_size
        /\ (/\ Admitted(c)
            /\ NoFault(c)
            /\ pc[c] = "done" \/ (pc[c] = "recv" /\ inbox[c] = <<>>))
               => Cardinality({i \in 1..Len(sent[c]) : IsError(sent[c][i], -32600)})
                      = oversized[c]

\* C3: of the requests an identity makes within the window its first request
\* opened, exactly the first rate_limit are allowed; an allowed request is
\* passed to the handler and answered with the handler's response, a denied
\* one is answered with a -32000 error and not passed on.
C3_BudgetPerWindow ==
    /\ \A id \in Idents : \A i \in 1..Len(requests[id]) :
           requests[id][i].at <= FirstWindowEnd(id)
               => (requests[id][i].allowed <=> i <= rate_limit)
    /\ \A c \in Conns : \A i \in 1..Len(sent[c]) :
           IF requests[remote_address[c]][i].allowed
           THEN sent[c][i] = [jsonrpc |-> "2.0", result |-> "ok", request |-> Small]
           ELSE IsError(sent[c][i], -32000)
    /\ \A c \in Conns :
           pc[c] # "idle" =>
               Len(dispatched[c]) =
                   Cardinality({i \in 1..Len(requests[remote_address[c]]) :
                                   requests[remote_address[c]][i].allowed})

\* request rate_limit + 1 of one window has been answered
C3_Witness ==
    /\ Len(requests[1]) > rate_limit
    /\ requests[1][rate_limit + 1].at <= FirstWindowEnd(1)
    /\ requests[1][rate_limit + 1].at > requests[1][1].at
    /\ Len(sent[1]) = rate_limit + 1

C4_Step ==
    \A c \in Conns :
        /\ (pc[c] = "handler" /\ exit'[c] = "Exception")
               => /\ pc'[c] = "done"
                  /\ raised'[c] = "none"
                  /\ active_connections' = Without(active_connections, c)
                  /\ wsState'[c] = "CLOSED"
                  /\ UNCHANGED <<client_rate_limits, inbox, sent, dispatched>>
        /\ pc[c] = "done"
               => /\ pc'[c] = "done"
                  /\ ~InList(active_connections', c)
                  /\ UNCHANGED <<inbox[c], sent[c], dispatched[c]>>

C5_RemovedOnEveryExit ==
    [][\A c \in Conns :
          (InLoop(c) /\ pc'[c] = "done")
              => /\ ~InList(active_connections', c)
                 /\ active_connections' = Without(active_connections, c)
                 /\ exit'[c] \in {"none", "ConnectionClosedOK",
                                  "ConnectionClosedError1006",
                                  "ConnectionClosedError1009", "Exception",
                                  "CancelledError"}
                 /\ (exit'[c] # "CancelledError" => raised'[c] = "none")]_vars

\* a task ended on a closed connection while another connection stays registered
C5_Witness ==
    \E c, d \in Conns :
        /\ c < d
        /\ pc[d] = "done" /\ exit[d] = "ConnectionClosedError1006"
        /\ active_connections = <<c>>

\* C6: a connection that had a message rejected as too large or as
\* rate-limited (and whose client did not close, whose task was not cancelled
\* and whose handler did not raise) is still open and in the registry.
C6_RejectionKeepsConnection ==
    \A c \in Conns :
        (/\ Admitted(c)
         /\ NoFault(c)
         /\ \/ oversized[c] > 0
            \/ \E i \in 1..Len(sent[c]) : IsError(sent[c][i], -32000))
            => (wsState[c] = "OPEN" /\ InList(active_connections, c))

\* C7 as claimed: the first request that arrives at or after the end of the
\* window (window start + 60 s) is allowed.
C7_AllowedFromSixty ==
    \A id \in Idents : \A i \in 2..Len(requests[id]) :
        (/\ requests[id][i].at >= FirstWindowEnd(id)
         /\ \A j \in 1..(i - 1) : requests[id][j].at < FirstWindowEnd(id))
            => requests[id][i].allowed

\* C7, amended: the first request that arrives strictly after window start
\* + 60 s is allowed; a request at exactly window start + 60 s still counts in
\* the old window and is denied when the budget is used up.
C7_AllowedAfterSixty ==
    \A id \in Idents : \A i \in 2..Len(requests[id]) :
        /\ (/\ requests[id][i].at > FirstWindowEnd(id)
            /\ \A j \in 1..(i - 1) : requests[id][j].at <= FirstWindowEnd(id))
               => requests[id][i].allowed
        /\ (/\ requests[id][i].at = FirstWindowEnd(id)
            /\ i > rate_limit)
               => ~requests[id][i].allowed

\* a request was denied at exactly window start + 60 s and one allowed later
C7_Witness ==
    \E i, k \in 1..Len(requests[1]) :
        /\ i < k
        /\ requests[1][i].at = FirstWindowEnd(1)
        /\ ~requests[1][i].allowed
        /\ requests[1][k].at > FirstWindowEnd(1)
        /\ requests[1][k].allowed

C9_FirstCall ==
    /\ \A id \in Idents \ DOMAIN client_rate_limits :
           LET r == check_rate_limit(client_rate_limits, id, now)
           IN  /\ r.allowed
               /\ DOMAIN r.table = DOMAIN client_rate_limits \cup {id}
               /\ r.table[id] = [count |-> 1, reset_time |-> now + 60]
               /\ \A o \in DOMAIN client_rate_limits :
                      r.table[o] = client_rate_limits[o]
    /\ \A id \in Idents :
           Len(requests[id]) = 1 =>
               /\ requests[id][1].allowed
               /\ client_rate_limits[id] =
                      [count |-> 1, reset_time |-> requests[id][1].at + 60]

\* an identity's first call was made at a clock reading other than zero
C9_Witness ==
    /\ Len(requests[1]) = 1
    /\ requests[1][1].at > 0
    /\ client_rate_limits[1].count = 1

C10_Step ==
    \A c \in Conns :
        /\ (pc[c] = "idle" /\ pc'[c] # "idle"
                /\ Len(active_connections) >= max_connections)
               => /\ pc'[c] = "closing"
                  /\ UNCHANGED <<active_connections, client_rate_limits>>
        /\ (pc[c] = "closing" /\ pc'[c] # "closing")
               => /\ pc'[c] = "done" /\ exit'[c] = "rejected"
                  /\ wsState[c] = "OPEN" =>
                         (Len(sent'[c]) = 1 /\ IsClose(sent'[c][1], 1008))
                  /\ wsState'[c] = "CLOSED"
                  /\ UNCHANGED <<active_connections, client_rate_limits>>
        /\ Rejected(c)
               => /\ pc'[c] \in {"closing", "done"}
                  /\ ~InList(active_connections', c)
                  /\ dispatched'[c] = <<>>
                  /\ out'[c] = NoFrame
                  /\ \A i \in 1..Len(sent'[c]) : IsClose(sent'[c][i], 1008)
                  /\ inbox'[c] = inbox[c] \/ Len(inbox'[c]) = Len(inbox[c]) + 1
        /\ \A id \in DOMAIN client_rate_limits' :
               \E d \in Conns : remote_address'[d] = id /\ Admitted(d)'

\* C10: a connection that arrives at a full registry is closed with code 1008
\* and a reason, never enters the registry, has none of its messages taken
\* from its queue, checked or passed to the handler, and gets no rate-limit
\* window.
C10_RejectedNeverServed == [][C10_Step]_vars

\* a rejected connection was closed with 1008 while a message of its client
\* waits unread and its address has no window
C10_Witness ==
    \E c \in Conns :
        /\ pc[c] = "done" /\ exit[c] = "rejected"
        /\ inbox[c] # <<>>
        /\ Len(sent[c]) = 1 /\ IsClose(sent[c][1], 1008)
        /\ remote_address[c] \notin DOMAIN client_rate_limits

\* connections whose task is in the receive loop
Live == {c \in Conns : InLoop(c)}
\* the registry lists every connection at most once
NoDuplicates(l) == \A i, j \in 1..Len(l) : l[i] = l[j] => i = j

C11_Step ==
    \A c \in Conns :
        (pc[c] = "idle" /\ pc'[c] # "idle" /\ Cardinality(Live) < max_connections)
            => /\ pc'[c] = "recv"
               /\ wsState'[c] = "OPEN"
               /\ active_connections' = Append(active_connections, c)

\* C11: the registry holds exactly the connections whose task has not ended,
\* so every terminated connection frees its place; and a connection that
\* arrives while fewer than max_connections tasks are running is admitted:
\* appended to the registry with its task in the receive loop.
C11_FreedCapacityReused ==
    /\ [](/\ NoDuplicates(active_connections)
          /\ {active_connections[i] : i \in 1..Len(active_connections)} = Live)
    /\ [][C11_Step]_vars

\* more connections were admitted than the registry can hold at once, and
\* the last of them has been answered
C11_Witness ==
    LET adm == {c \in Conns : Admitted(c)}
    IN  /\ Cardinality(adm) > max_connections
        /\ \E d \in adm :
               /\ \A c \in adm : c <= d
               /\ InList(active_connections, d)
               /\ \E i \in 1..Len(sent[d]) : "result" \in DOMAIN sent[d][i]

\* frames taken from the queue of connection c by its task
Consumed(c) == Len(received[c]) - Len(inbox[c])
\* JSON-RPC error objects sent to the client of connection c
ErrorsSent(c) ==
    Cardinality({i \in 1..Len(sent[c]) :
                    /\ "error" \in DOMAIN sent[c][i]
                    /\ sent[c][i].error.code \in Int
                    /\ sent[c][i].error.message # ""})

C12_Step ==
    \A c \in Conns :
        (pc[c] = "handler" /\ exit'[c] = "Exception" /\ wsState[c] = "OPEN")
            => \E f \in {SizeError, RateError,
                          [jsonrpc |-> "2.0",
                           error |-> [code |-> -32603, message |-> "Internal error"],
                           id |-> "null"]} :
                   sent'[c] = Append(sent[c], f)

\* C12: a client that has not closed and whose task was not cancelled has
\* been sent one JSON-RPC error object for each of its messages that was
\* rejected as too large or as rate-limited, once its task has nothing left
\* to process; and when the handler raises on a message of an open
\* connection, an error object is sent to that connection.
C12_EveryFailureAnswered ==
    /\ [](\A c \in Conns :
             (/\ Admitted(c)
              /\ NoFault(c)
              /\ pc[c] = "done" \/ (pc[c] = "recv" /\ inbox[c] = <<>>))
                 => ErrorsSent(c) = oversized[c] + (Consumed(c) - Len(dispatched[c])))
    /\ [][C12_Step]_vars

IsResult(f) == "result" \in DOMAIN f

C13_Step ==
    \A c \in Conns :
        /\ dispatched'[c] # dispatched[c]
               => dispatched'[c] =
                      Append(dispatched[c], received[c][Consumed(c) + 1])
        /\ (pc[c] = "send" /\ IsResult(out[c]) /\ pc'[c] = "recv")
               => /\ sent'[c] = Append(sent[c], out[c])
                  /\ \A d \in Conns \ {c} : sent'[d] = sent[d]
                  /\ notified' = notified

\* C13: the handler is called with exactly the next message the client of
\* the connection sent; the frame sent back is exactly what the handler
\* returned for that message ({"jsonrpc": "2.0", "result": "ok"} with the
\* request it was given), it goes to the connection the request came from
\* and changes what no other connection is sent.
C13_Verbatim ==
    /\ [](\A c \in Conns : \A i \in 1..Len(sent[c]) :
             IsResult(sent[c][i])
                 => sent[c][i] = [jsonrpc |-> "2.0", result |-> "ok",
                                  request |-> received[c][i]])
    /\ [][C13_Step]_vars

\* two connections have each been sent the response to their own, different, request
C13_Witness ==
    \E c, d \in Conns :
        /\ Len(sent[c]) = 1 /\ IsResult(sent[c][1]) /\ sent[c][1].request = Small
        /\ Len(sent[d]) = 1 /\ IsResult(sent[d][1]) /\ sent[d][1].request = Other

\* the messages of connection c that were passed to the handler, in the
\* order of their arrival: those answered with a result and the one in work
InOrderDispatched(c) ==
    LET n == Consumed(c)
        idx == {k \in 1..n : k <= Len(sent[c]) => IsResult(sent[c][k])}
        RECURSIVE pick(_)
        pick(k) == IF k > n THEN <<>>
                   ELSE IF k \in idx /\ (k > Len(sent[c]) => ~IsError(out[c], -32000))
                        THEN <<received[c][k]>> \o pick(k + 1)
                        ELSE pick(k + 1)
    IN  pick(1)

C14_Step ==
    \A c \in Conns :
        dispatched'[c] # dispatched[c]
            => /\ Len(sent[c]) = Consumed(c)
               /\ Len(dispatched'[c]) = Len(dispatched[c]) + 1

\* C14: on one connection at most one message is in work; the handler is
\* called for a message only when every message that arrived before it on
\* the connection has had its reply or policy error sent; the i-th frame
\* sent answers the i-th message that arrived; and the handler sees the
\* messages in the order of their arrival.
C14_InOrderNoPipelining ==
    /\ [](\A c \in Conns :
             InLoop(c) =>
                 /\ Consumed(c) - Len(sent[c]) =
                        (IF pc[c] \in {"handler", "send"} THEN 1 ELSE 0)
                 /\ \A i \in 1..Len(sent[c]) :
                        \/ IsResult(sent[c][i]) /\ sent[c][i].request = received[c][i]
                        \/ IsError(sent[c][i], -32000)
                 /\ dispatched[c] = InOrderDispatched(c))
    /\ [][C14_Step]_vars

\* a connection has had two different requests answered in the order they
\* arrived, and then a policy error for a third
C14_Witness ==
    \E c \in Conns :
        /\ Len(sent[c]) = 3
        /\ IsResult(sent[c][1]) /\ IsResult(sent[c][2])
        /\ sent[c][1].request # sent[c][2].request
        /\ IsError(sent[c][3], -32000)

\* C15: while the handler call of connection 1 does not return, every
\* message that has arrived on another admitted connection is in the end
\* answered on that connection, with the response to it or a policy error,
\* connection 1 still waiting in its handler call.
C15_OthersProgress ==
    \A d \in Others : \A k \in 1..(rate_limit + 1) :
        (pc[1] = "handler" /\ Len(received[d]) >= k)
            ~> (/\ pc[1] = "handler"
                /\ Len(sent[d]) >= k
                /\ \/ IsResult(sent[d][k]) /\ sent[d][k].request = received[d][k]
                   \/ IsError(sent[d][k], -32000))

\* another connection has been answered while connection 1 waits in its
\* handler call
C15_Witness ==
    /\ pc[1] = "handler"
    /\ \E d \in Others :
           /\ pc[d] = "recv" /\ inbox[d] = <<>>
           /\ Len(sent[d]) >= 1 /\ IsResult(sent[d][1])

C16_Step ==
    /\ (bcast = "scheduled" /\ bcast' # "scheduled")
           => /\ targets' = active_connections
              /\ bcast' = IF active_connections = <<>> THEN "done" ELSE "sending"
              /\ notified' = notified
    /\ (bcast = "sending" /\ <<bcast, targets>>' # <<bcast, targets>>)
           => /\ targets' = Tail(targets)
              /\ bcast' = IF targets' = <<>> THEN "done" ELSE "sending"
              /\ notified' =
                     [notified EXCEPT ![Head(targets)] =
                         IF wsState[Head(targets)] = "OPEN"
                         THEN Append(@, [jsonrpc |-> "2.0",
                                         method |-> "server_notification",
                                         params |-> [message |-> "Server started and ready"]])
                         ELSE @]
    /\ bcast \notin {"scheduled", "sending"} => notified' = notified

\* C16: a broadcast takes the connections of the registry as they are when
\* it is called and attempts one send of the notification to each of them, in
\* turn: a connection that is open at its turn receives the notification, one
\* that is closed receives nothing, and in both cases the broadcast goes on
\* with the next connection; no exception leaves the broadcast.
C16_BroadcastReachesAll ==
    /\ [](bcast_raised = "none")
    /\ [](bcast = "done" => targets = <<>>)
    /\ [][C16_Step]_vars

\* the broadcast is over: the first connection of the registry was closed
\* but not yet removed and got nothing, the one after it got the notification
C16_Witness ==
    /\ bcast = "done"
    /\ Len(active_connections) >= 2
    /\ LET c == active_connections[1]
           d == active_connections[2]
       IN  /\ c < d
           /\ wsState[c] \in {"CLOSED_OK", "CLOSED_ERR"}
           /\ notified[c] = <<>>
           /\ Len(notified[d]) = 1

\* both files exist and load_cert_chain accepts them
PairLoads == files.cert /\ files.key /\ files.loads

C17_Step ==
    /\ runpc = "start" =>
           /\ runpc' \in {"start", "serve"}
           /\ run_exit' = "none"
    /\ (runpc = "serve" /\ runpc' = "wait_closed") =>
           listening' = IF PairLoads THEN "wss" ELSE "ws"

\* C17: the TLS set-up never ends run(): from its start run() always goes on
\* to open the listening socket; and the socket it opens is encrypted (wss,
\* with an SSL context) when the certificate and the key file both exist and
\* load, and plain (ws, no SSL context) in every other case.
C17_TlsIffPairLoads ==
    /\ [](runpc # "start" =>
             /\ ssl_context = (IF PairLoads THEN "SSLContext" ELSE "None")
             /\ run_exit # "SSLError")
    /\ [](listening # "none" =>
             listening = (IF PairLoads THEN "wss" ELSE "ws"))
    /\ [][C17_Step]_vars

\* both files are there but do not load, and the server listens unencrypted
C17_Witness ==
    /\ files.cert /\ files.key /\ ~files.loads
    /\ runpc = "wait_closed"
    /\ listening = "ws"
    /\ ssl_context = "None"

\* C18: run() creates one monitor task, at its start; whenever run() has
\* ended, by the server closing, by websockets.serve failing or by
\* cancellation, the monitor has been cancelled; and the monitor runs no
\* loop body after run() has ended.
C18_MonitorCancelledOnExit ==
    /\ [](monitor_started = (IF runpc = "start" THEN 0 ELSE 1))
    /\ [](runpc = "done" =>
             /\ run_exit \in {"none", "Exception", "CancelledError"}
             /\ monitor \in {"cancelling", "cancelled"})
    /\ [][runpc = "done" => monitor_ticks' = monitor_ticks]_vars

\* websockets.serve failed after the monitor had run its loop body once, and
\* the monitor has ended
C18_Witness ==
    /\ runpc = "done"
    /\ run_exit = "Exception"
    /\ monitor = "cancelled"
    /\ monitor_ticks = 1

CountBefore(id, t) ==
    IF id \in DOMAIN client_rate_limits /\ ~(t > client_rate_limits[id].reset_time)
    THEN client_rate_limits[id].count
    ELSE 0

C20_Step ==
    /\ \A c \in Conns :
           (pc[c] = "idle" /\ pc'[c] # "idle")
               => IF Len(active_connections) < max_connections
                  THEN active_connections' = Append(active_connections, c)
                  ELSE active_connections' = active_connections
    /\ \A id \in Idents :
           IF requests'[id] # requests[id]
           THEN LET r == requests'[id][Len(requests'[id])]
                IN  /\ requests'[id] = Append(requests[id], r)
                    /\ r.allowed <=> CountBefore(id, r.at) < rate_limit
                    /\ client_rate_limits'[id].count =
                           CountBefore(id, r.at) + (IF r.allowed THEN 1 ELSE 0)
           ELSE id \in DOMAIN client_rate_limits
                    => /\ id \in DOMAIN client_rate_limits'
                       /\ client_rate_limits'[id] = client_rate_limits[id]

\* C20: every step that admits or rejects a connection decides on the
\* registry as it is in that step and appends in the same step, and every
\* rate check reads the count, compares and increments in one step, nothing
\* else writing the table; so the count of a window is the number of requests
\* allowed in it, never above the limit, and the tasks in the receive loop
\* never outnumber max_connections, whatever the interleaving of the tasks.
C20_CheckThenActAtomic ==
    /\ [](\A id \in DOMAIN client_rate_limits :
             /\ client_rate_limits[id].count =
                    AllowedInWindow(id, client_rate_limits[id].reset_time)
             /\ client_rate_limits[id].count <= rate_limit)
    /\ [](Cardinality(Live) <= max_connections)
    /\ [][C20_Step]_vars

\* the tasks of two connections with the same address, the registry full,
\* have each had a request of theirs counted
C20_Witness ==
    \E c, d \in Conns :
        /\ c # d
        /\ remote_address[c] = remote_address[d]
        /\ pc[c] = "handler" /\ pc[d] = "handler"
        /\ Len(active_connections) = max_connections
        /\ client_rate_limits[remote_address[c]].count = 2

\* connections that have come from address id
From(id) == {c \in Conns : pc[c] # "idle" /\ remote_address[c] = id}
RECURSIVE SumOver(_, _)
SumOver(f, S) ==
    IF S = {} THEN 0
    ELSE LET x == CHOOSE y \in S : TRUE IN f[x] + SumOver(f, S \ {x})

C21_Step ==
    /\ DOMAIN client_rate_limits \subseteq DOMAIN client_rate_limits'
    /\ (\E c \in Conns :
            \/ pc'[c] = "done" /\ pc[c] # "done"
            \/ wsState'[c] # wsState[c]
            \/ pc[c] = "idle" /\ pc'[c] # "idle")
           => client_rate_limits' = client_rate_limits

\* C21: no step removes an identity from the rate-limit table; a step in
\* which a connection is accepted, closed by its client or ended leaves the
\* table as it is; and, all requests falling into one window, the count of an
\* identity is the number of requests passed to the handler on all the
\* connections that have come from its address, closed ones included.
C21_WindowSurvivesConnection ==
    /\ [](\A id \in DOMAIN client_rate_limits :
             client_rate_limits[id].count =
                 SumOver([c \in Conns |-> Len(dispatched[c])], From(id)))
    /\ [][C21_Step]_vars

\* a second connection from the address of an ended one has had its request
\* counted on top of the first connection's
C21_Witness ==
    \E c, d \in Conns :
        /\ c # d
        /\ remote_address[c] = remote_address[d]
        /\ pc[c] = "done" /\ Len(dispatched[c]) = 1
        /\ InLoop(d) /\ Len(dispatched[d]) = 1
        /\ client_rate_limits[remote_address[c]].count = 2

\* clock readings of a call made now or later
Later == {now, now + 1, now + Window, now + Window + 1}
\* the window of identity id in table tbl, if it has one
Entry(tbl, id) == IF id \in DOMAIN tbl THEN <<tbl[id]>> ELSE <<>>

C22_Step ==
    \A a, b \in Idents :
        (a # b /\ Entry(client_rate_limits', a) # Entry(client_rate_limits, a))
            => Entry(client_rate_limits', b) = Entry(client_rate_limits, b)

\* C22: in every reachable state an allow call for identity a, made at any
\* time, leaves the window of every other identity b as it is (absent if it
\* was absent), and an allow call for b made after it returns the same flag
\* and leaves b the same window as it would without the call for a; and no
\* step of the transport changes the windows of two identities.
C22_IndependentPerClient ==
    /\ [](\A a, b \in Idents : \A ta, tb \in Later :
             (a # b /\ ta <= tb) =>
                 LET ra == check_rate_limit(client_rate_limits, a, ta)
                     rb == check_rate_limit(client_rate_limits, b, tb)
                     rab == check_rate_limit(ra.table, b, tb)
                 IN  /\ Entry(ra.table, b) = Entry(client_rate_limits, b)
                     /\ rab.allowed = rb.allowed
                     /\ rab.table[b] = rb.table[b])
    /\ [][C22_Step]_vars

\* one client has used up its budget, and another client's request has been
\* allowed
C22_Witness ==
    \E a, b \in DOMAIN client_rate_limits :
        /\ a # b
        /\ client_rate_limits[a].count = rate_limit
        /\ client_rate_limits[b].count = 1
        /\ requests[b][1].allowed

C23_Step ==
    \A id \in DOMAIN client_rate_limits :
        LET w == client_rate_limits[id]
            w2 == client_rate_limits'[id]
        IN  /\ w2.reset_time = w.reset_time => w2.count >= w.count
            /\ IF requests'[id] # requests[id] /\ now' > w.reset_time
               THEN /\ w2.reset_time = now' + 60
                    /\ w2.count = 0 + (IF requests'[id][Len(requests'[id])].allowed
                                       THEN 1 ELSE 0)
               ELSE w2.reset_time = w.reset_time

Unexpired(id, t) ==
    /\ id \in DOMAIN client_rate_limits
    /\ t <= client_rate_limits[id].reset_time
\* identity id has an unexpired window at time t whose count has reached the limit
Exhausted(id, t) ==
    /\ Unexpired(id, t)
    /\ client_rate_limits[id].count >= rate_limit

C24_Step ==
    \A id \in Idents :
        requests'[id] # requests[id] =>
            IF Exhausted(id, now')
            THEN /\ ~requests'[id][Len(requests'[id])].allowed
                 /\ client_rate_limits' = client_rate_limits
                 /\ dispatched' = dispatched
            ELSE /\ requests'[id][Len(requests'[id])].allowed
                 /\ client_rate_limits'[id].count = CountBefore(id, now') + 1

\* C24: in every reachable state, an allow call for an identity whose
\* unexpired window has reached the limit returns false and leaves the whole
\* table as it is; every other allow call returns true and leaves the
\* identity's count one above the count of its unexpired window, or at one
\* when it had no window or an expired one; and the calls the receive loop
\* makes do the same to the transport's table.
C24_DeniedLeavesWindow ==
    /\ [](\A id \in Idents : \A t \in Later :
             LET r == check_rate_limit(client_rate_limits, id, t)
             IN  IF Exhausted(id, t)
                 THEN ~r.allowed /\ r.table = client_rate_limits
                 ELSE /\ r.allowed
                      /\ r.table[id].count = CountBefore(id, t) + 1
                      /\ r.table[id].reset_time =
                             (IF Unexpired(id, t)
                              THEN client_rate_limits[id].reset_time
                              ELSE t + 60))
    /\ [][C24_Step]_vars

\* a request was denied one second into a full window, which is as it was
C24_Witness ==
    \E i \in 2..Len(requests[1]) :
        /\ i = Len(requests[1])
        /\ ~requests[1][i].allowed
        /\ requests[1][i].at > requests[1][1].at
        /\ requests[1][i].window = FirstWindowEnd(1)
        /\ client_rate_limits[1] =
               [count |-> rate_limit, reset_time |-> FirstWindowEnd(1)]

\* identities whose window has not expired and holds more than half the limit
HotNow ==
    {id \in DOMAIN client_rate_limits :
        /\ now <= client_rate_limits[id].reset_time
        /\ 2 * client_rate_limits[id].count > rate_limit}

\* C25: the number of clients over half the limit that the monitor reports
\* at a tick is the number of identities that, at the time of the tick, have
\* a window that has not expired with a count above half the limit.
C25_ReportCountsHotClients ==
    [][(monitor_ticks' # monitor_ticks /\ Len(monitor_report') = 2)
          => monitor_report'[2] = Cardinality(HotNow)]_vars

\* requests to the exchange started in the minute that begins at time t
StartedInMinute(t) ==
    Cardinality({j \in 1..Len(api_started) :
                    api_started[j] >= t /\ api_started[j] < t + 60})

\* C26: in the minute that begins with the start of any request, at most
\* max_requests_per_minute requests to the exchange are started.
C26_AtMostPerMinute ==
    \A i \in 1..Len(api_started) :
        StartedInMinute(api_started[i]) <= max_requests_per_minute

\* a line of whitespace only
Blank(l) == \A i \in 1..Len(l) : l[i] \in Whitespace

\* a non-blank line from its first to its last non-blank character
Core(l) ==
    LET solid == {i \in 1..Len(l) : l[i] \notin Whitespace}
        lo == CHOOSE i \in solid : \A j \in solid : i <= j
        hi == CHOOSE i \in solid : \A j \in solid : j <= i
    IN  SubSeq(l, lo, hi)

\* the lines read so far
LinesRead ==
    LET reads == SelectSeq(stdio_log, LAMBDA e : e.op = "read" /\ e.text # <<>>)
    IN  [i \in 1..Len(reads) |-> reads[i].text]

RECURSIVE Cores(_)
Cores(ls) ==
    IF ls = <<>> THEN <<>>
    ELSE IF Blank(Head(ls)) THEN Cores(Tail(ls))
         ELSE <<Core(Head(ls))>> \o Cores(Tail(ls))

\* every event of the log is followed by the event the loop allows after it
LogInOrder ==
    \A i \in 1..Len(stdio_log) :
        LET e == stdio_log[i]
            last == i = Len(stdio_log)
        IN  /\ (e.op = "read" /\ e.text = <<>>) => last /\ stdio_pc = "done"
            /\ (e.op = "read" /\ e.text # <<>> /\ Blank(e.text)) =>
                    (last \/ stdio_log[i + 1].op = "read")
            /\ (e.op = "read" /\ ~Blank(e.text)) =>
                    (~last /\ stdio_log[i + 1] = CallEvent(Core(e.text)))
            /\ e.op = "call" =>
                    IF last THEN stdio_pc \in {"handler", "raised"}
                    ELSE stdio_log[i + 1] = WriteEvent(HandlerResponse(e.text))
            /\ e.op = "write" => (last \/ stdio_log[i + 1].op = "read")

EndOfInputRead ==
    stdio_log # <<>> /\ stdio_log[Len(stdio_log)] = ReadEvent(<<>>)

\* the whole standard input
WholeInput == LinesRead \o stdin

Invocations(id) ==
    SumOver([c \in Conns |-> IF remote_address[c] = id THEN Len(dispatched[c]) ELSE 0],
            Conns)
\* requests of identity id that the rate limiter allowed
AllowedEver(id) ==
    Cardinality({j \in 1..Len(requests[id]) : requests[id][j].allowed})

C28_Step ==
    /\ ((\E c \in Conns : oversized'[c] # oversized[c])
            \/ (\E c \in Conns : out'[c] = SizeError /\ out[c] # SizeError))
         => /\ client_rate_limits' = client_rate_limits
            /\ requests' = requests
            /\ dispatched' = dispatched
    /\ \A id \in Idents :
         LET invoked ==
               SumOver([c \in Conns |-> IF remote_address'[c] = id
                                        THEN Len(dispatched'[c]) ELSE 0], Conns)
                 - Invocations(id)
             kept == /\ id \in DOMAIN client_rate_limits
                     /\ client_rate_limits'[id].reset_time
                            = client_rate_limits[id].reset_time
         IN  IF id \in DOMAIN client_rate_limits'
             THEN client_rate_limits'[id].count =
                    (IF kept THEN client_rate_limits[id].count ELSE 0) + invoked
             ELSE invoked = 0

\* C28: a message rejected as too large leaves the rate-limit table as it
\* is, and in every reachable state the count of an identity's window is the
\* number of its messages of that window that passed the size check and were
\* allowed by the rate limiter, which is the number of handler invocations
\* for it in that window.
C28_LargeMessageKeepsBudget ==
    /\ [](\A id \in Idents : \A m \in Msgs : \A t \in Later :
             StrLen(m) > max_message_size
                => loop_rate_check(client_rate_limits, id, m, t).table
                        = client_rate_limits)
    /\ [](\A id \in DOMAIN client_rate_limits :
             client_rate_limits[id].count
                = AllowedInWindow(id, client_rate_limits[id].reset_time))
    /\ [](\A id \in Idents : Invocations(id) = AllowedEver(id))
    /\ [][C28_Step]_vars

\* a connection of the address was failed for a frame above the limit after
\* one request; the address's second request, on a new connection, found the
\* budget of the window untouched
C28_Witness ==
    \E c, e \in Conns :
        /\ c # e
        /\ remote_address[c] = 1 /\ remote_address[e] = 1
        /\ oversized[c] > 0 /\ wsState[c] = "FAILED"
        /\ Len(dispatched[c]) = 1 /\ Len(dispatched[e]) = 1
        /\ client_rate_limits[1].count = 2
        /\ now < client_rate_limits[1].reset_time

\* a step of the broadcast task
BroadcastStep ==
    \/ bcast \in {"scheduled", "sending"} /\ bcast' # bcast
    \/ targets' # targets
    \/ notified' # notified

C29_Step ==
    /\ BroadcastStep =>
         /\ active_connections' = active_connections
         /\ client_rate_limits' = client_rate_limits
    /\ (bcast = "scheduled" /\ bcast' # bcast) =>
         /\ targets' = active_connections
         /\ notified' = notified
         /\ active_connections = <<>> => bcast' = "done"
    /\ bcast # "scheduled" =>
         \/ targets' = targets /\ notified' = notified
         \/ /\ targets # <<>>
            /\ targets' \in {Tail(targets), <<>>}
            /\ \A c \in Conns :
                 notified'[c] # notified[c] =>
                    /\ c = Head(targets)
                    /\ targets' = Tail(targets)
                    /\ notified[c] = <<>>
                    /\ notified'[c] = <<Notification>>

C30_ResponseMatchesRequest ==
    \A i \in 1..Len(returned) :
        returned[i].response # None => returned[i].response = returned[i].request

====
